---- MODULE Spec2Model ----
(***************************************************************************)
(* GoReconX execution core: the scan lifecycle manager (ScanManager), the  *)
(* adapter that runs a registered module for it (ModuleAdapter), the base  *)
(* module scaffold (BaseModule: status, stop channel, SendResult) and the  *)
(* bounded fan-out of PortScanModule.Execute / WebEnumModule.Execute.      *)
(*                                                                         *)
(* Goroutines are processes; one action is one step of one goroutine       *)
(* between two accesses to state another goroutine can see.                *)
(***************************************************************************)
EXTENDS Integers, Sequences, FiniteSets, TLC

(***************************************************************************)
(* Bounds of the model.                                                    *)
(***************************************************************************)
\* Scans started through the manager.
MaxScans == 1
\* Scans started for one session by callers that start several.
MaxSessionScans == 2
\* Executions of Module.Execute (one per scan, or started directly).
MaxExecs == 2
\* Length of the longest candidate list a direct caller passes.
MaxCands == 2
\* Length to which the default candidate lists (the common ports, the
\* generated web paths) are cut.
MaxCommon == 1
\* Largest "threads" option a direct caller passes (0 reads as absent).
MaxThreads == 1
\* Capacity of the output channel handed to Execute by a direct caller.
DirectCap == 1
\* Register calls made on a registry, and module instances per name
MaxRegs == 3
MaxInst == 2
\* goroutines calling a registry at the same time
MaxCallers == 3
\* records one discovery technique returns, and the largest max_results option
MaxFind == 2
MaxResultsOpt == 2
\* candidates and largest "threads" option handed to a scanner of the
\* scanner package
MaxLegacyCands == 3
MaxLegacyThreads == 2

(***************************************************************************)
(* Program constants.                                                      *)
(***************************************************************************)
\* make(chan modules.ModuleResult, 100) in ModuleAdapter.Execute
AdapterCap == 100
\* make(chan *Event, 100) in Application.Subscribe
SubscriberCap == 100
\* threads default of PortScanModule.Execute
PortDefaultThreads == 100
\* threads default of WebEnumModule.Execute
WebDefaultThreads == 20
\* capacity of BaseModule.stopCh
StopCap == 1
\* highest valid TCP port of parsePorts
MaxPort == 65535
\* max_results default of EmailEnumModule.Execute
DefaultMaxResults == 100
\* Confidence of a search-engine, a website and a low / high Hunter.io record
ConfSearch == 70
ConfCrawl == 85
ConfLow == 50
ConfHigh == 90

ScanIds == 1..MaxSessionScans
ExecIds == 1..MaxExecs
CandIdx == 1..MaxCands

\* The modules init() registers that the model executes.
FanModules == {"port_scan", "web_enum"}
Modules == FanModules \cup {"email_enum"}
\* Names a caller may pass to StartScan; "nope" is never registered.
ModuleNames == Modules \cup {"nope"}

(***************************************************************************)
(* ScanExecution.Progress is a float64.  The only values the code can      *)
(* store are 0.0, the sums 0.1 + 0.1 + ... of the ticker, and 1.0.  The    *)
(* model stores the index of the value in ProgressValues; the float sums   *)
(* are those IEEE-754 double arithmetic produces.                          *)
(***************************************************************************)
ProgressValues ==
    << "0.0", "0.1", "0.2", "0.30000000000000004", "0.4", "0.5", "0.6", "0.7",
       "0.7999999999999999", "0.8999999999999999", "0.9999999999999999",
       "1.0", "1.0999999999999999", "1.1" >>
\* index (from 0) of 0.1, written by executeScan when it sets running
ProgressStart == 1
\* index of 1.0, written by executeScan at the end
ProgressFull == 11
\* scan.Progress < 0.9 holds for the values up to 0.8999999999999999
ProgressLastBelow09 == 9
ProgressIdx == 0..(Len(ProgressValues) - 1)
\* x + 0.1 on the stored values
AddTenth(p) ==
    IF p < ProgressFull - 1 THEN p + 1
    ELSE IF p + 2 \in ProgressIdx THEN p + 2
    ELSE p

VARIABLES
    \* ---- ScanManager.scans: the ScanExecution records, by id
    scanStatus,     \* Status; "none" = no record under this id
    scanProgress,   \* Progress, as an index into ProgressValues
    scanModule,     \* ModuleName
    scanError,      \* Error
    scanTarget,     \* Target
    scanOptions,    \* Options
    scanCtxDone,    \* ctx cancelled (scan.cancel() was called)
    \* ---- the session the scans name, and the scans table of the database
    sessState,      \* "none", "live" (in Application.sessions) or "deleted"
    sessResults,    \* session.Results, by module name: "none" = no entry
    dbWorks,        \* db.Exec succeeds
    dbRows,         \* status column of the row of each scan; "none" = no row
    \* ---- goroutines of the manager
    execPc,         \* executeScan goroutine of each scan
    tickPc,         \* progress-ticker goroutine of each scan
    tickTmp,        \* the Progress value the ticker loaded for +=
    ret,            \* the error the last StartScan / CancelScan returned ("" = nil)
    call,           \* which call returned it: "StartScan", "CancelScan", "" = none yet
    cancelling,     \* the scan a CancelScan call holding sm.mutex is about to cancel; 0 = none
    crashed,        \* the process died of an unrecovered panic
    \* ---- module instances (one per registered name, shared by all runs)
    modSt,          \* BaseModule.status: status string and IsRunning
    stopCh,         \* number of values buffered in BaseModule.stopCh
    semRef,         \* which channel the semaphore field points to
    semCap,         \* capacity of the semaphore made by execution e
    semCnt,         \* values buffered in the semaphore made by execution e
    \* ---- executions of Module.Execute
    exPc,           \* position of the Execute call
    exMod,          \* the module executed
    exThreads,      \* threads after defaulting
    exCands,        \* the candidate list (ports / paths)
    exIdx,          \* index of the next candidate of the spawn loop
    exRet,          \* "none", "ok" (nil) or "err"
    exErr,          \* the message of the error returned
    exStopped,      \* Stop() was called on the module while this call ran
    wPc,            \* worker goroutine of each candidate
    wRes,           \* the list the worker appended its candidate to: "open"
                    \* (OpenPorts / FoundPaths), "closed", "none" = not yet
    outLen,         \* results buffered in the output channel
    outCap,         \* capacity of the output channel
    outComplete,    \* the complete result is among the buffered ones
    \* ---- a registry made by NewModuleRegistry() / NewRegistry()
    regModules,     \* the modules map: name -> instance, 0 = no entry
    regLog,         \* the Register calls made so far, in order
    \* ---- concurrent callers of the registries
    rcPc,           \* per registry type and caller: "idle", or inside the map
                    \* access of a lookup ("read") or of a Register ("write")
    \* ---- EmailEnumModule.Execute called with a full options map
    mgBuild,        \* loop-variable semantics of the build running it: "shared"
                    \* (go directive below 1.22), "periter", "" = not started
    mgPhase,        \* 0 not started, 1..3 next technique, 4 emit, 5 returned
    mgLog,          \* the lists the techniques returned so far, in merge order
    mgMap,          \* emailMap: address -> cell (0 = no entry)
    mgCells,        \* the EmailInfo variables the map's pointers point to
    mgMax,          \* maxResults after defaulting
    mgEmitted,      \* result.Emails
    mgEmitKeys,     \* the map keys result.Emails was filled from, in order
    mgStopped,      \* Execute returned at an IsStopped() check
    mgIn,           \* the technique of phase mgPhase is running
    mgStopReq,      \* Stop() was called while this Execute was running
    mgOut,          \* the types of the results passed to SendResult, in order
    \* ---- PortScanner.Execute / SubdomainEnumerator.Execute (scanner package)
    lgKind,         \* the scanner running, "" = none
    lgPc,           \* "idle", "spawn" (the range loop), "wait" (wg.Wait),
                    \* "done" (returned), "panic"
    lgThreads,      \* threads as read from the options
    lgN,            \* len(ports) / len(subdomains)
    lgIdx,          \* index of the next candidate of the range loop
    lgW,            \* worker goroutine of each candidate
    lgSem,          \* values buffered in the local semaphore
    lgFound         \* candidates appended to results

sideVars == << sessState, sessResults, dbWorks, dbRows >>
scanVars == << scanStatus, scanProgress, scanModule, scanError, scanTarget, scanOptions,
              scanCtxDone, sideVars >>
mgrVars == << execPc, tickPc, tickTmp, ret, call, cancelling >>
modVars == << modSt, stopCh, semRef, semCap, semCnt >>
exVars == << exPc, exMod, exThreads, exCands, exIdx, exRet, exErr, exStopped, wPc, wRes,
             outLen, outCap, outComplete >>
regVars == << regModules, regLog >>
\* the state of the components exercised on their own
mgVars == << mgBuild, mgPhase, mgLog, mgMap, mgCells, mgMax, mgEmitted, mgEmitKeys,
            mgStopped, mgIn, mgStopReq, mgOut >>
lgVars == << lgKind, lgPc, lgThreads, lgN, lgIdx, lgW, lgSem, lgFound >>
libVars == << regVars, rcPc, mgVars, lgVars >>
progVars == << scanVars, mgrVars, crashed, modVars, exVars >>
vars == << scanVars, mgrVars, crashed, modVars, exVars, libVars >>

(***************************************************************************)
(* BaseModule: status, stop channel, SendResult.                           *)
(***************************************************************************)
\* BaseModule.SetStatus, on the fields the model keeps (Status, IsRunning)
SetStatus(st, status) ==
    [ status  |-> status,
      running |-> IF status = "running" /\ ~st.running THEN TRUE
                  ELSE IF status \in {"completed", "error", "stopped"} THEN FALSE
                  ELSE st.running ]

\* BaseModule.IsStopped: a non-blocking receive from stopCh
IsStopped(m) == stopCh[m] > 0

\* BaseModule.SendResult: a non-blocking send; a full channel drops the result.
\* The number of results buffered after n sends in a row.
SendResult(len, cap, n) == IF len + n <= cap THEN len + n ELSE IF len <= cap THEN cap ELSE len

\* Whether one more send finds room
SendFits(len, cap) == len < cap

\* Application.Publish on one subscriber's channel holding len events: the
\* select with a default case
PublishSend(len) == IF len < SubscriberCap THEN len + 1 ELSE len

(***************************************************************************)
(* PortScanModule.parsePorts.  A port specification is the keyword         *)
(* ("common", or "" for a custom list) and the comma-separated parts, each *)
(* a single number or a range a-b.                                         *)
(***************************************************************************)
Sgl(p) == [ kind |-> "single", a |-> p, b |-> p ]
Rng(a, b) == [ kind |-> "range", a |-> a, b |-> b ]
NoPorts == [ kw |-> "", parts |-> << >> ]

\* the commonPorts literal, cut to the first MaxCommon entries
CommonPorts ==
    SubSeq(<< 21, 22, 23, 25, 53, 80, 110, 111, 135, 139, 143, 443, 993, 995,
              1723, 3306, 3389, 5432, 5900, 6379, 8080, 8443, 27017 >>, 1, MaxCommon)

ParsePart(part) ==
    IF part.kind = "range"
    THEN IF part.a <= part.b /\ part.a > 0 /\ part.b <= MaxPort
         THEN [ i \in 1..(part.b - part.a + 1) |-> part.a + i - 1 ]
         ELSE << >>
    ELSE IF part.a > 0 /\ part.a <= MaxPort THEN << part.a >> ELSE << >>

RECURSIVE ParseParts(_)
ParseParts(parts) ==
    IF parts = << >> THEN << >>
    ELSE ParsePart(Head(parts)) \o ParseParts(Tail(parts))

parsePorts(spec) == IF spec.kw = "common" THEN CommonPorts ELSE ParseParts(spec.parts)

\* WebEnumModule.generatePaths over the default wordlist and extensions, cut
\* to the first MaxCommon paths (a path is named by its position).
WebPaths == [ i \in 1..MaxCommon |-> i ]

(***************************************************************************)
(* Targets, and the Validate methods of the modules.  Three targets stand  *)
(* for the cases the code tells apart: a host name that resolves and       *)
(* parses, the empty string, and a string url.Parse rejects (it starts     *)
(* with "http", so WebEnumModule.Execute does not prefix it).              *)
(***************************************************************************)
TargetOk == "example.com"
TargetEmpty == ""
TargetBadURL == "http://[bad"
Targets == { TargetOk, TargetEmpty, TargetBadURL }

\* url.Parse(t) returns no error
UrlParses(t) == t # TargetBadURL
\* net.ParseIP(t) != nil, or net.LookupHost(t) returns no error
Resolves(t) == t = TargetOk
\* isValidDomain(t)
IsValidDomain(t) == t = TargetOk

\* BaseModule.ValidateInput
ValidateInput(t) == t # ""

\* Module.Validate: TRUE when it returns nil
Validate(m, t) ==
    /\ ValidateInput(t)
    /\ CASE m = "port_scan" -> Resolves(t)
         [] m = "web_enum" -> UrlParses(t)
         [] OTHER -> IsValidDomain(t)

ErrNoPorts == "no valid ports to scan"
ErrInvalidURL == "invalid URL: parse error"

(***************************************************************************)
(* Options of an Execute call.  An absent int or string option reads as 0  *)
(* or "" (the two-value type assertion).                                   *)
(***************************************************************************)
EmptyOptions == [ threads |-> 0, ports |-> NoPorts ]

\* the port specifications a direct caller passes
PortSpecInputs ==
    { NoPorts,
      [ kw |-> "", parts |-> << Rng(20, 19 + MaxCands) >> ],
      [ kw |-> "", parts |-> << Sgl(80), Sgl(80) >> ],
      [ kw |-> "", parts |-> << Sgl(0) >> ] }

\* the options a caller of StartScan passes
ScanOptionInputs ==
    { EmptyOptions,
      [ threads |-> MaxThreads, ports |-> [ kw |-> "", parts |-> << Rng(20, 19 + MaxCands) >> ] ] }

DirectOptions(m) ==
    IF m = "port_scan"
    THEN { [ threads |-> t, ports |-> ps ] : t \in 0..MaxThreads, ps \in PortSpecInputs }
    ELSE { [ threads |-> t, ports |-> NoPorts ] : t \in 0..MaxThreads }

DefaultThreads(m) == IF m = "port_scan" THEN PortDefaultThreads ELSE WebDefaultThreads

\* results sent before the fan-out loop: one progress notice by port_scan;
\* progress, tech_stack data and progress by web_enum
PreludeResults(m) == IF m = "port_scan" THEN 1 ELSE 3

(***************************************************************************)
(* PortScanModule.Execute / WebEnumModule.Execute up to the spawn loop:    *)
(* SetStatus, option parsing, the new semaphore stored in the module's     *)
(* field, the candidate list.                                              *)
(***************************************************************************)
FanStart(e, m, target, opts, cap) ==
    LET threads == IF opts.threads <= 0 THEN DefaultThreads(m) ELSE opts.threads
        spec == IF opts.ports = NoPorts THEN [ kw |-> "common", parts |-> << >> ]
                ELSE opts.ports
        \* web_enum: url.Parse(baseURL) failed, no path list is made
        cands == IF m = "port_scan" THEN parsePorts(spec)
                 ELSE IF UrlParses(target) THEN WebPaths ELSE << >>
    IN  /\ modSt' = [ modSt EXCEPT ![m] = SetStatus(@, "running") ]
        /\ semRef' = [ semRef EXCEPT ![m] = e ]
        /\ semCap' = [ semCap EXCEPT ![e] = threads ]
        /\ semCnt' = [ semCnt EXCEPT ![e] = 0 ]
        /\ exMod' = [ exMod EXCEPT ![e] = m ]
        /\ exThreads' = [ exThreads EXCEPT ![e] = threads ]
        /\ exCands' = [ exCands EXCEPT ![e] = cands ]
        /\ exIdx' = [ exIdx EXCEPT ![e] = 1 ]
        /\ outCap' = [ outCap EXCEPT ![e] = cap ]
        /\ IF Len(cands) = 0
           THEN \* return NewModuleError("no valid ports to scan", "NO_PORTS"), or
                \* return NewModuleError("invalid URL: ...", "INVALID_URL")
                /\ exPc' = [ exPc EXCEPT ![e] = "done" ]
                /\ exRet' = [ exRet EXCEPT ![e] = "err" ]
                /\ exErr' = [ exErr EXCEPT ![e] = IF m = "port_scan" THEN ErrNoPorts
                                                  ELSE ErrInvalidURL ]
                /\ outLen' = outLen
           ELSE /\ exPc' = [ exPc EXCEPT ![e] = "loop" ]
                /\ exRet' = exRet
                /\ exErr' = exErr
                /\ outLen' = [ outLen EXCEPT ![e] = SendResult(0, cap, PreludeResults(m)) ]
        /\ UNCHANGED << stopCh, exStopped, wPc, wRes, outComplete >>

\* One iteration of "for _, port := range ports": IsStopped, else go worker.
FanLoop(e) ==
    LET m == exMod[e] IN
    /\ exPc[e] = "loop"
    /\ IF IsStopped(m)
       THEN /\ stopCh' = [ stopCh EXCEPT ![m] = @ - 1 ]
            /\ exPc' = [ exPc EXCEPT ![e] = "wait" ]
            /\ UNCHANGED << wPc, exIdx >>
       ELSE /\ wPc' = [ wPc EXCEPT ![e][exIdx[e]] = "spawned" ]
            /\ exIdx' = [ exIdx EXCEPT ![e] = @ + 1 ]
            /\ exPc' = [ exPc EXCEPT ![e] = IF exIdx[e] = Len(exCands[e]) THEN "wait" ELSE "loop" ]
            /\ stopCh' = stopCh
    /\ UNCHANGED << scanVars, mgrVars, crashed, modSt, semRef, semCap, semCnt,
                    exMod, exThreads, exCands, exRet, exErr, exStopped, wRes, outLen, outCap,
                    outComplete >>

\* Worker: "p.semaphore <- true", then the check of the candidate; a hit
\* (open port, found path) sends a data result.
WorkerAcquire(e, i) ==
    LET c == semRef[exMod[e]] IN
    /\ wPc[e][i] = "spawned"
    /\ semCnt[c] < semCap[c]
    /\ semCnt' = [ semCnt EXCEPT ![c] = @ + 1 ]
    /\ wPc' = [ wPc EXCEPT ![e][i] = "inflight" ]
    /\ \E hit \in BOOLEAN :
          /\ wRes' = [ wRes EXCEPT ![e][i] = IF hit THEN "open" ELSE "closed" ]
          /\ outLen' = [ outLen EXCEPT ![e] = IF hit THEN SendResult(@, outCap[e], 1) ELSE @ ]
    /\ UNCHANGED << scanVars, mgrVars, crashed, modSt, stopCh, semRef, semCap,
                    exPc, exMod, exThreads, exCands, exIdx, exRet, exErr, exStopped,
                    outCap, outComplete >>

\* Worker's deferred calls: "<-p.semaphore" on the channel the field points
\* to now, then scannedCount++ and SetStatus("running", ...), then wg.Done.
WorkerRelease(e, i) ==
    LET m == exMod[e]
        c == semRef[m] IN
    /\ wPc[e][i] = "inflight"
    /\ semCnt[c] > 0
    /\ semCnt' = [ semCnt EXCEPT ![c] = @ - 1 ]
    /\ modSt' = [ modSt EXCEPT ![m] = SetStatus(@, "running") ]
    /\ wPc' = [ wPc EXCEPT ![e][i] = "done" ]
    /\ UNCHANGED << scanVars, mgrVars, crashed, stopCh, semRef, semCap,
                    exPc, exMod, exThreads, exCands, exIdx, exRet, exErr, exStopped, wRes,
                    outLen, outCap, outComplete >>

\* FanFinish as it would be with a plain (blocking) send of the complete result
\* After wg.Wait(): (web_enum: vulnerability results,) SetStatus("completed"),
\* the complete result, return nil.
FanFinish_BlockingSend(e) ==
    LET m == exMod[e] IN
    /\ exPc[e] = "wait"
    /\ \A i \in CandIdx : wPc[e][i] \in {"none", "done"}
    /\ SendFits(outLen[e], outCap[e])
    /\ modSt' = [ modSt EXCEPT ![m] = SetStatus(@, "completed") ]
    /\ \E nv \in (IF m = "web_enum" THEN 0..1 ELSE {0}) :
          LET len == SendResult(outLen[e], outCap[e], nv) IN
          /\ outComplete' = [ outComplete EXCEPT ![e] = SendFits(len, outCap[e]) ]
          /\ outLen' = [ outLen EXCEPT ![e] = SendResult(len, outCap[e], 1) ]
    /\ exPc' = [ exPc EXCEPT ![e] = "done" ]
    /\ exRet' = [ exRet EXCEPT ![e] = "ok" ]
    /\ UNCHANGED << scanVars, mgrVars, crashed, stopCh, semRef, semCap, semCnt,
                    exMod, exThreads, exCands, exIdx, exErr, exStopped, wPc, wRes, outCap >>

\* After wg.Wait(): (web_enum: vulnerability results,) SetStatus("completed"),
\* the complete result, return nil.
FanFinish(e) ==
    LET m == exMod[e] IN
    /\ exPc[e] = "wait"
    /\ \A i \in CandIdx : wPc[e][i] \in {"none", "done"}
    /\ modSt' = [ modSt EXCEPT ![m] = SetStatus(@, "completed") ]
    /\ \E nv \in (IF m = "web_enum" THEN 0..1 ELSE {0}) :
          LET len == SendResult(outLen[e], outCap[e], nv) IN
          /\ outComplete' = [ outComplete EXCEPT ![e] = SendFits(len, outCap[e]) ]
          /\ outLen' = [ outLen EXCEPT ![e] = SendResult(len, outCap[e], 1) ]
    /\ exPc' = [ exPc EXCEPT ![e] = "done" ]
    /\ exRet' = [ exRet EXCEPT ![e] = "ok" ]
    /\ UNCHANGED << scanVars, mgrVars, crashed, stopCh, semRef, semCap, semCnt,
                    exMod, exThreads, exCands, exIdx, exErr, exStopped, wPc, wRes, outCap >>

\* The state of a module instance BaseModule.Stop works on
ModState(m) == [ st |-> modSt[m], ch |-> stopCh[m] ]

\* BaseModule.Stop as a function of that state: the non-blocking send on
\* stopCh, IsRunning = false, Status = "stopped"
StopEffect(x) ==
    [ st |-> [ status |-> "stopped", running |-> FALSE ],
      ch |-> IF x.ch < StopCap THEN x.ch + 1 ELSE x.ch ]

\* Stop as it would be with a plain (blocking) send on stopCh
Stop_BlockingSend(m) ==
    /\ stopCh[m] < StopCap
    /\ stopCh' = [ stopCh EXCEPT ![m] = StopEffect(ModState(m)).ch ]
    /\ modSt' = [ modSt EXCEPT ![m] = StopEffect(ModState(m)).st ]
    /\ exStopped' = [ e \in ExecIds |->
                        exStopped[e] \/ (exMod[e] = m /\ exPc[e] \in {"loop", "wait"}) ]
    /\ UNCHANGED << scanVars, mgrVars, crashed, semRef, semCap, semCnt,
                    exPc, exMod, exThreads, exCands, exIdx, exRet, exErr, wPc, wRes,
                    outLen, outCap, outComplete >>

\* BaseModule.Stop, called by any holder of the module
Stop(m) ==
    /\ stopCh' = [ stopCh EXCEPT ![m] = StopEffect(ModState(m)).ch ]
    /\ modSt' = [ modSt EXCEPT ![m] = StopEffect(ModState(m)).st ]
    /\ exStopped' = [ e \in ExecIds |->
                        exStopped[e] \/ (exMod[e] = m /\ exPc[e] \in {"loop", "wait"}) ]
    /\ UNCHANGED << scanVars, mgrVars, crashed, semRef, semCap, semCnt,
                    exPc, exMod, exThreads, exCands, exIdx, exRet, exErr, wPc, wRes,
                    outLen, outCap, outComplete >>

\* A direct call of Module.Execute with the caller's options and channel
DirectExecute(e, m, target, opts) ==
    /\ exPc[e] = "idle"
    /\ \A d \in ExecIds : d < e => exPc[d] # "idle"
    /\ FanStart(e, m, target, opts, DirectCap)
    /\ UNCHANGED << scanVars, mgrVars, crashed >>

(***************************************************************************)
(* EmailEnumModule.Execute, option parsing: the single-value assertion     *)
(* input.Options["use_clearbit"].(bool) panics when the key is absent.     *)
(* The adapter always passes an empty options map, so the call made for a  *)
(* scan panics in the executeScan goroutine; nothing recovers it and the   *)
(* process dies.                                                           *)
(***************************************************************************)
EmailStart(e, m) ==
    /\ modSt' = [ modSt EXCEPT ![m] = SetStatus(@, "running") ]
    /\ exMod' = [ exMod EXCEPT ![e] = m ]
    /\ exPc' = [ exPc EXCEPT ![e] = "panic" ]
    /\ crashed' = TRUE
    /\ UNCHANGED << stopCh, semRef, semCap, semCnt, exThreads, exCands, exIdx,
                    exRet, exErr, exStopped, wPc, wRes, outLen, outCap, outComplete >>

(***************************************************************************)
(* ScanManager.                                                            *)
(***************************************************************************)
\* Application.GetModule: the names initializeModules took from the registry
Registered == Modules

Terminal == {"completed", "failed", "cancelled"}

\* storeScanInDB / updateScanInDB: db.Exec with scan.Status; an error is
\* logged and nothing else happens
StoreWrite(s, status) ==
    /\ dbRows' = IF dbWorks THEN [ dbRows EXCEPT ![s] = status ] ELSE dbRows
    /\ UNCHANGED << sessState, sessResults, dbWorks >>

\* StartScan as it would be with the record stored before the module lookup
StartScan_StoreBeforeLookup(name, target, options) ==
    \E s \in ScanIds :
        /\ scanStatus[s] = "none"
        /\ \A t \in ScanIds : t < s => scanStatus[t] # "none"
        /\ scanStatus' = [ scanStatus EXCEPT ![s] = "pending" ]
        /\ scanProgress' = [ scanProgress EXCEPT ![s] = 0 ]
        /\ scanModule' = [ scanModule EXCEPT ![s] = name ]
        /\ scanError' = [ scanError EXCEPT ![s] = "" ]
        /\ scanTarget' = [ scanTarget EXCEPT ![s] = target ]
        /\ scanOptions' = [ scanOptions EXCEPT ![s] = options ]
        /\ scanCtxDone' = [ scanCtxDone EXCEPT ![s] = FALSE ]
        /\ StoreWrite(s, "pending")
        /\ call' = "StartScan"
        /\ IF name \notin Modules
           THEN ret' = "module not found" /\ execPc' = execPc
           ELSE ret' = "" /\ execPc' = [ execPc EXCEPT ![s] = "start" ]
        /\ UNCHANGED << tickPc, tickTmp, cancelling, crashed, modVars, exVars >>

\* StartScan as it would be if an error of the insert were returned to the
\* caller instead of logged: the record is stored, executeScan is not started
StartScan_InsertErrorReturned(name, target, options) ==
    IF name \notin Registered
    THEN /\ ret' = "module not found"
         /\ call' = "StartScan"
         /\ UNCHANGED << scanVars, execPc, tickPc, tickTmp, cancelling, crashed,
                         modVars, exVars >>
    ELSE \E s \in ScanIds :
         /\ cancelling = 0        \* sm.mutex.Lock() around the store
         /\ scanStatus[s] = "none"
         /\ \A t \in ScanIds : t < s => scanStatus[t] # "none"
         /\ scanStatus' = [ scanStatus EXCEPT ![s] = "pending" ]
         /\ scanProgress' = [ scanProgress EXCEPT ![s] = 0 ]
         /\ scanModule' = [ scanModule EXCEPT ![s] = name ]
         /\ scanError' = [ scanError EXCEPT ![s] = "" ]
         /\ scanTarget' = [ scanTarget EXCEPT ![s] = target ]
         /\ scanOptions' = [ scanOptions EXCEPT ![s] = options ]
         /\ scanCtxDone' = [ scanCtxDone EXCEPT ![s] = FALSE ]
         /\ StoreWrite(s, "pending")
         /\ execPc' = IF dbWorks THEN [ execPc EXCEPT ![s] = "start" ] ELSE execPc
         /\ ret' = IF dbWorks THEN "" ELSE "database error"
         /\ call' = "StartScan"
         /\ UNCHANGED << tickPc, tickTmp, cancelling, crashed, modVars, exVars >>

\* ScanManager.StartScan
StartScan(name, target, options) ==
    IF name \notin Registered
    THEN /\ ret' = "module not found"
         /\ call' = "StartScan"
         /\ UNCHANGED << scanVars, execPc, tickPc, tickTmp, cancelling, crashed,
                         modVars, exVars >>
    ELSE \E s \in ScanIds :
         /\ cancelling = 0        \* sm.mutex.Lock() around the store
         /\ scanStatus[s] = "none"
         /\ \A t \in ScanIds : t < s => scanStatus[t] # "none"
         /\ scanStatus' = [ scanStatus EXCEPT ![s] = "pending" ]
         /\ scanProgress' = [ scanProgress EXCEPT ![s] = 0 ]
         /\ scanModule' = [ scanModule EXCEPT ![s] = name ]
         /\ scanError' = [ scanError EXCEPT ![s] = "" ]
         /\ scanTarget' = [ scanTarget EXCEPT ![s] = target ]
         /\ scanOptions' = [ scanOptions EXCEPT ![s] = options ]
         /\ scanCtxDone' = [ scanCtxDone EXCEPT ![s] = FALSE ]
         /\ StoreWrite(s, "pending")
         /\ execPc' = [ execPc EXCEPT ![s] = "start" ]
         /\ ret' = ""
         /\ call' = "StartScan"
         /\ UNCHANGED << tickPc, tickTmp, cancelling, crashed, modVars, exVars >>

\* ScanManager.GetScan: the "exists" result
GetScan(s) == scanStatus[s] # "none"

\* len(sm.scans)
ScansStarted == Cardinality({ s \in ScanIds : GetScan(s) })

\* CancelScan as it would be without the test of Status
CancelScan_AnyStatus(s) ==
    /\ cancelling = 0
    /\ IF ~GetScan(s)
       THEN ret' = "scan not found" /\ call' = "CancelScan" /\ cancelling' = cancelling
       ELSE cancelling' = s /\ UNCHANGED << ret, call >>
    /\ UNCHANGED << scanVars, execPc, tickPc, tickTmp, crashed, modVars, exVars >>

\* ScanManager.CancelScan: sm.mutex.Lock(), the lookup and the test of
\* Status.  For a scan that is not running the call returns here; for a
\* running one it goes on to CancelCommit, still holding the mutex, which
\* executeScan never takes.
CancelScan(s) ==
    /\ cancelling = 0
    /\ IF ~GetScan(s)
       THEN ret' = "scan not found" /\ call' = "CancelScan" /\ cancelling' = cancelling
       ELSE IF scanStatus[s] = "running"
       THEN cancelling' = s /\ UNCHANGED << ret, call >>
       ELSE ret' = "" /\ call' = "CancelScan" /\ cancelling' = cancelling
    /\ UNCHANGED << scanVars, execPc, tickPc, tickTmp, crashed, modVars, exVars >>

\* ScanManager.CancelScan, the branch of a running scan: scan.cancel(),
\* Status = "cancelled", return nil
CancelCommit(s) ==
    /\ cancelling = s
    /\ scanCtxDone' = [ scanCtxDone EXCEPT ![s] = TRUE ]
    /\ scanStatus' = [ scanStatus EXCEPT ![s] = "cancelled" ]
    /\ StoreWrite(s, "cancelled")
    /\ ret' = ""
    /\ call' = "CancelScan"
    /\ cancelling' = 0
    /\ UNCHANGED << scanProgress, scanModule, scanError, scanTarget, scanOptions,
                    execPc, tickPc, tickTmp, crashed, modVars, exVars >>

\* executeScan: Status = "running", Progress = 0.1, the ticker goroutine starts
ExecBegin(s) ==
    /\ execPc[s] = "start"
    /\ scanStatus' = [ scanStatus EXCEPT ![s] = "running" ]
    /\ scanProgress' = [ scanProgress EXCEPT ![s] = ProgressStart ]
    /\ StoreWrite(s, "running")
    /\ tickPc' = [ tickPc EXCEPT ![s] = "wait" ]
    /\ execPc' = [ execPc EXCEPT ![s] = "call" ]
    /\ UNCHANGED << scanModule, scanError, scanTarget, scanOptions, scanCtxDone,
                    tickTmp, ret, call, cancelling, crashed, modVars, exVars >>

\* The context ModuleAdapter.Execute hands to the module is
\* context.Background(), which nothing cancels: not scan.ctx.
AdapterCtxDone(s) == FALSE

\* executeScan: module.Execute(scan.Target), which is ModuleAdapter.Execute:
\* empty options, a fresh channel of 100, context.Background()
ExecCallModule(s) ==
    /\ execPc[s] = "call"
    /\ execPc' = [ execPc EXCEPT ![s] = "module" ]
    /\ IF scanModule[s] \in FanModules
       THEN FanStart(s, scanModule[s], scanTarget[s], EmptyOptions, AdapterCap)
            /\ crashed' = crashed
       ELSE EmailStart(s, scanModule[s])
    /\ UNCHANGED << scanVars, tickPc, tickTmp, ret, call, cancelling >>

\* executeScan as it would be with Progress = 1.0 written before the final Status
ExecReturn_ProgressFirst(s) ==
    /\ execPc[s] = "module"
    /\ exPc[s] = "done"
    /\ scanCtxDone' = [ scanCtxDone EXCEPT ![s] = TRUE ]
    /\ scanProgress' = [ scanProgress EXCEPT ![s] = ProgressFull ]
    /\ execPc' = [ execPc EXCEPT ![s] = "progress" ]
    /\ UNCHANGED << scanStatus, scanModule, scanError, scanTarget, scanOptions, sideVars,
                    tickPc, tickTmp, ret, call, cancelling, crashed, modVars, exVars >>

\* executeScan after module.Execute returned: scan.cancel(), then the final
\* Status (and Error)
ExecReturn(s) ==
    /\ execPc[s] = "module"
    /\ exPc[s] = "done"
    /\ scanCtxDone' = [ scanCtxDone EXCEPT ![s] = TRUE ]
    /\ IF exRet[s] = "err"
       THEN /\ scanStatus' = [ scanStatus EXCEPT ![s] = "failed" ]
            /\ scanError' = [ scanError EXCEPT ![s] = exErr[s] ]
       ELSE /\ scanStatus' = [ scanStatus EXCEPT ![s] = "completed" ]
            /\ scanError' = scanError
    /\ execPc' = [ execPc EXCEPT ![s] = "progress" ]
    /\ UNCHANGED << scanProgress, scanModule, scanTarget, scanOptions, sideVars, tickPc,
                    tickTmp, ret, call, cancelling, crashed, modVars, exVars >>

\* executeScan as it would be if it dropped the finished record from sm.scans
ExecFinalProgress_DropRecord(s) ==
    /\ execPc[s] = "progress"
    /\ scanProgress' = [ scanProgress EXCEPT ![s] = ProgressFull ]
    /\ scanStatus' = [ scanStatus EXCEPT ![s] = "none" ]
    /\ StoreWrite(s, scanStatus[s])
    /\ execPc' = [ execPc EXCEPT ![s] = "session" ]
    /\ UNCHANGED << scanModule, scanError, scanTarget, scanOptions,
                    scanCtxDone, tickPc, tickTmp, ret, call, cancelling, crashed, modVars, exVars >>

\* executeScan: scan.Progress = 1.0, updateScanInDB
ExecFinalProgress(s) ==
    /\ execPc[s] = "progress"
    /\ scanProgress' = [ scanProgress EXCEPT ![s] = ProgressFull ]
    /\ StoreWrite(s, scanStatus[s])
    /\ execPc' = [ execPc EXCEPT ![s] = "session" ]
    /\ UNCHANGED << scanStatus, scanModule, scanError, scanTarget, scanOptions,
                    scanCtxDone, tickPc, tickTmp, ret, call, cancelling, crashed, modVars, exVars >>

\* ticker goroutine, case <-progressTicker.C: the test of Status and Progress
TickCheck(s) ==
    /\ tickPc[s] = "wait"
    /\ scanStatus[s] = "running"
    /\ scanProgress[s] <= ProgressLastBelow09
    /\ tickPc' = [ tickPc EXCEPT ![s] = "load" ]
    /\ UNCHANGED << scanVars, execPc, tickTmp, ret, call, cancelling, crashed, modVars, exVars >>

\* ticker goroutine, scan.Progress += 0.1: the load
TickLoad(s) ==
    /\ tickPc[s] = "load"
    /\ tickTmp' = [ tickTmp EXCEPT ![s] = scanProgress[s] ]
    /\ tickPc' = [ tickPc EXCEPT ![s] = "store" ]
    /\ UNCHANGED << scanVars, execPc, ret, call, cancelling, crashed, modVars, exVars >>

\* ticker goroutine, scan.Progress += 0.1: the store
TickStore(s) ==
    /\ tickPc[s] = "store"
    /\ scanProgress' = [ scanProgress EXCEPT ![s] = AddTenth(tickTmp[s]) ]
    /\ tickTmp' = [ tickTmp EXCEPT ![s] = 0 ]
    /\ tickPc' = [ tickPc EXCEPT ![s] = "wait" ]
    /\ UNCHANGED << scanStatus, scanModule, scanError, scanTarget, scanOptions,
                    scanCtxDone, sideVars, execPc, ret, call, cancelling, crashed, modVars,
                    exVars >>

\* ticker goroutine, case <-scan.ctx.Done(): return
TickExit(s) ==
    /\ tickPc[s] = "wait"
    /\ scanCtxDone[s]
    /\ tickPc' = [ tickPc EXCEPT ![s] = "done" ]
    /\ UNCHANGED << scanVars, execPc, tickTmp, ret, call, cancelling, crashed, modVars, exVars >>

\* scan.Results: the empty map of StartScan until executeScan takes the
\* branch of a nil error and stores {"data": result}
ScanResults(s) ==
    IF execPc[s] \in {"progress", "session", "write", "race", "done"} /\ exRet[s] # "err"
    THEN "data" ELSE "empty"

\* executeScan, "session, exists := sm.app.GetSession(scan.SessionID)": with
\* the session found the goroutine goes on to the assignment into
\* session.Results, which no lock guards.  A goroutine that arrives while
\* another one is inside the assignment races with it ("race" marks both).
ExecGetSession(s) ==
    /\ execPc[s] = "session"
    /\ LET inside == { r \in ScanIds : execPc[r] \in {"write", "race"} }
       IN  execPc' = IF sessState # "live"
                     THEN [ execPc EXCEPT ![s] = "done" ]
                     ELSE IF inside = {}
                     THEN [ execPc EXCEPT ![s] = "write" ]
                     ELSE [ r \in ScanIds |->
                              IF r = s \/ r \in inside THEN "race" ELSE execPc[r] ]
    /\ UNCHANGED << scanVars, tickPc, tickTmp, ret, call, cancelling, crashed, modVars,
                    exVars >>

\* What an assignment into the map can do: alone it stores the entry; racing
\* with another assignment it stores it, loses it, or the runtime stops the
\* process ("fatal error: concurrent map writes").
WriteOutcomes(s) ==
    IF execPc[s] = "race" THEN { "stored", "lost", "fatal" } ELSE { "stored" }

\* executeScan, its last statements:
\* session.Results[scan.ModuleName] = scan.Results and UpdateSession, which
\* puts the session (back) into Application.sessions
ExecStoreInSession(s) ==
    /\ execPc[s] \in {"write", "race"}
    /\ \E o \in WriteOutcomes(s) :
          /\ sessResults' = IF o = "stored"
                            THEN [ sessResults EXCEPT ![scanModule[s]] = ScanResults(s) ]
                            ELSE sessResults
          /\ crashed' = (o = "fatal")
          /\ sessState' = IF o = "fatal" THEN sessState ELSE "live"
    /\ execPc' = [ execPc EXCEPT ![s] = "done" ]
    /\ UNCHANGED << scanStatus, scanProgress, scanModule, scanError, scanTarget,
                    scanOptions, scanCtxDone, dbWorks, dbRows,
                    tickPc, tickTmp, ret, call, cancelling, modVars, exVars >>

\* Application.CreateSession: the session the scans are started for.  Its id
\* is generated here, so no scan started earlier carries it.
CreateSession ==
    /\ sessState = "none"
    /\ \A s \in ScanIds : scanStatus[s] = "none"
    /\ sessState' = "live"
    /\ UNCHANGED << scanStatus, scanProgress, scanModule, scanError, scanTarget,
                    scanOptions, scanCtxDone, sessResults, dbWorks, dbRows,
                    mgrVars, crashed, modVars, exVars >>

\* Application.DeleteSession
DeleteSession ==
    /\ sessState = "live"
    /\ sessState' = "deleted"
    /\ UNCHANGED << scanStatus, scanProgress, scanModule, scanError, scanTarget,
                    scanOptions, scanCtxDone, sessResults, dbWorks, dbRows,
                    mgrVars, crashed, modVars, exVars >>

\* The database stops answering (file locked, disk full, closed handle)
StoreBreak ==
    /\ dbWorks
    /\ dbWorks' = FALSE
    /\ UNCHANGED << scanStatus, scanProgress, scanModule, scanError, scanTarget,
                    scanOptions, scanCtxDone, sessState, sessResults, dbRows,
                    mgrVars, crashed, modVars, exVars >>

(***************************************************************************)
(* ModuleRegistry (with its mutex) and Registry: a map from the module's   *)
(* GetInfo().Name to the module.  A module instance is named by a number.  *)
(***************************************************************************)
InstIds == 1..MaxInst

\* Register as it would be if it kept an entry already there
Register_KeepFirst(name, inst) ==
    /\ Len(regLog) < MaxRegs
    /\ regModules' = IF regModules[name] = 0 THEN [ regModules EXCEPT ![name] = inst ]
                     ELSE regModules
    /\ regLog' = Append(regLog, << name, inst >>)
    /\ UNCHANGED << scanVars, mgrVars, crashed, modVars, exVars, rcPc, mgVars, lgVars >>

\* ModuleRegistry.Register / Registry.Register: r.modules[info.Name] = module
Register(name, inst) ==
    /\ Len(regLog) < MaxRegs
    /\ regModules' = [ regModules EXCEPT ![name] = inst ]
    /\ regLog' = Append(regLog, << name, inst >>)
    /\ UNCHANGED << scanVars, mgrVars, crashed, modVars, exVars, rcPc, mgVars, lgVars >>

\* ModuleRegistry.Get / Registry.Get: the module (0 for nil) and "exists"
Get(name) == [ module |-> regModules[name], exists |-> regModules[name] # 0 ]

\* ModuleRegistry.Count: len(r.modules)
Count == Cardinality({ n \in ModuleNames : regModules[n] # 0 })

(***************************************************************************)
(* The registries under concurrent callers.  ModuleRegistry and the        *)
(* Application's module map guard the map with a sync.RWMutex (Lock in     *)
(* Register / RegisterModule, RLock in the lookups); Registry has no lock. *)
(***************************************************************************)
RegistryKinds == { "ModuleRegistry", "Application", "Registry" }
Callers == 1..MaxCallers
HasMutex(k) == k # "Registry"

\* mutex.Lock() / mutex.RLock() can be taken by caller c
CanLock(k, c) == \A d \in Callers \ {c} : rcPc[k][d] = "idle"
CanRLock(k, c) == \A d \in Callers \ {c} : rcPc[k][d] # "write"

\* Register / RegisterModule up to the map write
RegisterEnter(k, c) ==
    /\ rcPc[k][c] = "idle"
    /\ HasMutex(k) => CanLock(k, c)
    /\ rcPc' = [ rcPc EXCEPT ![k][c] = "write" ]
    /\ UNCHANGED << scanVars, mgrVars, crashed, modVars, exVars, regVars, mgVars, lgVars >>

\* Get, GetAll, GetByCategory, Count, GetModule, GetModules, List up to the map read
LookupEnter(k, c) ==
    /\ rcPc[k][c] = "idle"
    /\ HasMutex(k) => CanRLock(k, c)
    /\ rcPc' = [ rcPc EXCEPT ![k][c] = "read" ]
    /\ UNCHANGED << scanVars, mgrVars, crashed, modVars, exVars, regVars, mgVars, lgVars >>

\* the call returns (the deferred Unlock / RUnlock where there is a mutex)
RegistryLeave(k, c) ==
    /\ rcPc[k][c] # "idle"
    /\ rcPc' = [ rcPc EXCEPT ![k][c] = "idle" ]
    /\ UNCHANGED << scanVars, mgrVars, crashed, modVars, exVars, regVars, mgVars, lgVars >>

(***************************************************************************)
(* EmailEnumModule.Execute: the merge of the techniques' findings into     *)
(* emailMap (map[string]*EmailInfo) and the emission of result.Emails.     *)
(* The loops are "for _, email := range list { ... emailMap[k] = &email }":*)
(* with a go directive below 1.22 (the README asks for Go 1.21+) the loop  *)
(* variable is one variable per loop, so every pointer stored by a loop    *)
(* points to it; from 1.22 on each iteration has its own.  A cell is one   *)
(* such variable.  searchCodeRepositories, searchDataBreaches and          *)
(* searchCertificateLogs return nothing, so deepEmailSearch adds no record.*)
(***************************************************************************)
Addresses == { "a@example.com", "b@example.com" }
Techniques == << "search", "hunter", "crawl" >>
Builds == { "shared", "periter" }

NoRec == [ email |-> "", name |-> "", sources |-> << >>, conf |-> 0 ]

\* the EmailInfo values a technique can return
FindingsOf(t) ==
    CASE t = "search" ->
           { [ email |-> a, name |-> "", sources |-> << "Google Search" >>,
               conf |-> ConfSearch ] : a \in Addresses }
      [] t = "hunter" ->
           { [ email |-> a, name |-> n, sources |-> << "Hunter.io" >>, conf |-> c ] :
               a \in Addresses, n \in { "", "Ann Lee" }, c \in { ConfLow, ConfHigh } }
      [] OTHER ->
           { [ email |-> a, name |-> "", sources |-> << "Website: /contact" >>,
               conf |-> ConfCrawl ] : a \in Addresses }

\* the lists a technique can return
ListsOf(t) == UNION { [ 1..n -> FindingsOf(t) ] : n \in 0..MaxFind }

max(a, b) == IF a > b THEN a ELSE b

\* One iteration of a merge loop on st = [map, cells, loop], loop being the
\* cell of the loop variable under the shared semantics
MergeOne(st, x, build) ==
    LET cells1 == IF build = "shared" THEN [ st.cells EXCEPT ![st.loop] = x ] ELSE st.cells
        c == st.map[x.email]
    IN  IF c # 0
        THEN \* existing.Sources = append(existing.Sources, email.Sources...)
             \* existing.Confidence = max(existing.Confidence, email.Confidence)
             [ st EXCEPT !.cells = [ cells1 EXCEPT ![c] =
                                       [ @ EXCEPT !.sources = @ \o x.sources,
                                                  !.conf = max(@, x.conf) ] ] ]
        ELSE \* emailMap[email.Email] = &email
             IF build = "shared"
             THEN [ st EXCEPT !.cells = cells1, !.map[x.email] = st.loop ]
             ELSE [ st EXCEPT !.cells = Append(cells1, x), !.map[x.email] = Len(cells1) + 1 ]

RECURSIVE MergeLoop(_, _, _)
MergeLoop(st, list, build) ==
    IF list = << >> THEN st
    ELSE MergeLoop(MergeOne(st, Head(list), build), Tail(list), build)

\* One "for _, email := range list" loop
MergeList(st, list, build) ==
    IF list = << >> THEN st
    ELSE IF build = "shared"
    THEN MergeLoop([ st EXCEPT !.cells = Append(@, NoRec), !.loop = Len(st.cells) + 1 ],
                   list, build)
    ELSE MergeLoop(st, list, build)

EmptyMerge == [ map |-> [ a \in Addresses |-> 0 ], cells |-> << >>, loop |-> 0 ]

\* the merge loops of Execute over the lists in the order given
RECURSIVE MergeAll(_, _, _)
MergeAll(st, lists, build) ==
    IF lists = << >> THEN st
    ELSE MergeAll(MergeList(st, Head(lists), build), Tail(lists), build)

\* the mapping as a reader of emailMap sees it: address -> EmailInfo value
Mapping(map, cells) == [ a \in Addresses |-> IF map[a] = 0 THEN NoRec ELSE cells[map[a]] ]
Keys(map) == { a \in Addresses : map[a] # 0 }

\* Execute starts: max_results option, "if maxResults <= 0 { maxResults = 100 }"
EmailBegin(build, maxOpt) ==
    /\ mgPhase = 0
    /\ mgBuild' = build
    /\ mgMax' = IF maxOpt <= 0 THEN DefaultMaxResults ELSE maxOpt
    /\ mgPhase' = 1
    /\ modSt' = [ modSt EXCEPT !["email_enum"] = SetStatus(@, "running") ]
    /\ UNCHANGED << mgLog, mgMap, mgCells, mgEmitted, mgEmitKeys, mgStopped, mgIn,
                    mgStopReq, mgOut >>
    /\ UNCHANGED << scanVars, mgrVars, crashed, stopCh, semRef, semCap, semCnt, exVars,
                    regVars, rcPc, lgVars >>

\* A phase starts (phases 1, 2 and 4 of Execute): SetStatus, the progress
\* result, the call of the technique.  The phases after the first are behind
\* an "if e.IsStopped() { return nil }".
EmailPhaseStart ==
    /\ mgPhase \in 1..Len(Techniques)
    /\ ~mgIn
    /\ ~(mgPhase \in {2, 3} /\ IsStopped("email_enum"))
    /\ mgIn' = TRUE
    /\ mgOut' = Append(mgOut, "progress")
    /\ modSt' = [ modSt EXCEPT !["email_enum"] = SetStatus(@, "running") ]
    /\ UNCHANGED << mgBuild, mgPhase, mgLog, mgMap, mgCells, mgMax, mgEmitted, mgEmitKeys,
                    mgStopped, mgStopReq >>
    /\ UNCHANGED << scanVars, mgrVars, crashed, stopCh, semRef, semCap, semCnt, exVars,
                    regVars, rcPc, lgVars >>

\* "if e.IsStopped() { break }" in the loops of searchEngineEmails and
\* crawlWebsiteEmails: the receive takes the value out of stopCh
EmailInnerCheck ==
    /\ mgIn
    /\ Techniques[mgPhase] \in { "search", "crawl" }
    /\ IsStopped("email_enum")
    /\ stopCh' = [ stopCh EXCEPT !["email_enum"] = @ - 1 ]
    /\ UNCHANGED mgVars
    /\ UNCHANGED << scanVars, mgrVars, crashed, modSt, semRef, semCap, semCnt, exVars,
                    regVars, rcPc, lgVars >>

\* The technique returns its list and the loop of Execute merges it
EmailMerge(list) ==
    /\ mgPhase \in 1..Len(Techniques)
    /\ mgIn
    /\ mgIn' = FALSE
    /\ list \in ListsOf(Techniques[mgPhase])
    /\ LET st == MergeList([ map |-> mgMap, cells |-> mgCells, loop |-> 0 ], list, mgBuild)
       IN  mgMap' = st.map /\ mgCells' = st.cells
    /\ mgLog' = Append(mgLog, list)
    /\ mgPhase' = mgPhase + 1
    /\ UNCHANGED << mgBuild, mgMax, mgEmitted, mgEmitKeys, mgStopped, mgStopReq, mgOut >>
    /\ UNCHANGED << progVars, regVars, rcPc, lgVars >>

\* "if e.IsStopped() { return nil }" after phase 1 and after phase 2
EmailStopReturn ==
    /\ mgPhase \in {2, 3}
    /\ ~mgIn
    /\ IsStopped("email_enum")
    /\ stopCh' = [ stopCh EXCEPT !["email_enum"] = @ - 1 ]
    /\ mgPhase' = 5
    /\ mgStopped' = TRUE
    /\ UNCHANGED << mgBuild, mgLog, mgMap, mgCells, mgMax, mgEmitted, mgEmitKeys, mgIn,
                    mgStopReq, mgOut >>
    /\ UNCHANGED << scanVars, mgrVars, crashed, modSt, semRef, semCap, semCnt, exVars,
                    regVars, rcPc, lgVars >>

\* EmailEmit with the cap test written "<=": one record more than maxResults
\* "for _, email := range emailMap { if len(result.Emails) <= maxResults {
\* append } }" in the order the map iteration yields the keys, then
\* SetStatus("completed"), the complete result, return nil
EmailEmit_CapInclusive(order) ==
    /\ mgPhase = Len(Techniques) + 1
    /\ order \in [ 1..Cardinality(Keys(mgMap)) -> Keys(mgMap) ]
    /\ \A i, j \in DOMAIN order : i # j => order[i] # order[j]
    /\ LET n == IF Len(order) <= mgMax THEN Len(order) ELSE mgMax + 1
       IN  /\ mgEmitKeys' = SubSeq(order, 1, n)
           /\ mgEmitted' = [ i \in 1..n |-> Mapping(mgMap, mgCells)[order[i]] ]
           /\ mgOut' = mgOut \o [ i \in 1..n |-> "data" ] \o << "complete" >>
    /\ mgPhase' = 5
    /\ modSt' = [ modSt EXCEPT !["email_enum"] = SetStatus(@, "completed") ]
    /\ UNCHANGED << mgBuild, mgLog, mgMap, mgCells, mgMax, mgStopped, mgIn, mgStopReq >>
    /\ UNCHANGED << scanVars, mgrVars, crashed, stopCh, semRef, semCap, semCnt, exVars,
                    regVars, rcPc, lgVars >>

\* "for _, email := range emailMap { if len(result.Emails) < maxResults {
\* append } }" in the order the map iteration yields the keys, then
\* SetStatus("completed"), the complete result, return nil
EmailEmit(order) ==
    /\ mgPhase = Len(Techniques) + 1
    /\ order \in [ 1..Cardinality(Keys(mgMap)) -> Keys(mgMap) ]
    /\ \A i, j \in DOMAIN order : i # j => order[i] # order[j]
    /\ LET n == IF Len(order) < mgMax THEN Len(order) ELSE mgMax
       IN  /\ mgEmitKeys' = SubSeq(order, 1, n)
           /\ mgEmitted' = [ i \in 1..n |-> Mapping(mgMap, mgCells)[order[i]] ]
           /\ mgOut' = mgOut \o [ i \in 1..n |-> "data" ] \o << "complete" >>
    /\ mgPhase' = 5
    /\ modSt' = [ modSt EXCEPT !["email_enum"] = SetStatus(@, "completed") ]
    /\ UNCHANGED << mgBuild, mgLog, mgMap, mgCells, mgMax, mgStopped, mgIn, mgStopReq >>
    /\ UNCHANGED << scanVars, mgrVars, crashed, stopCh, semRef, semCap, semCnt, exVars,
                    regVars, rcPc, lgVars >>

\* BaseModule.Stop called on the email module
EmailStop ==
    /\ Stop("email_enum")
    /\ mgStopReq' = (mgStopReq \/ mgPhase \in 1..(Len(Techniques) + 1))
    /\ UNCHANGED << mgBuild, mgPhase, mgLog, mgMap, mgCells, mgMax, mgEmitted, mgEmitKeys,
                    mgStopped, mgIn, mgOut >>
    /\ UNCHANGED << regVars, rcPc, lgVars >>

(***************************************************************************)
(* The scanner package: PortScanner.scanTCPPorts and                       *)
(* SubdomainEnumerator.enumerateSubdomains.  Execute reads                 *)
(* "threads, _ := options["threads"].(int)" and hands the value on as it   *)
(* is: an absent key reads as 0.  The fan-out makes                        *)
(* "semaphore := make(chan struct{}, threads)", starts one goroutine per   *)
(* candidate, and waits for all of them.                                   *)
(***************************************************************************)
LegacyKinds == { "PortScanner", "SubdomainEnumerator" }
LegacyIdx == 1..MaxLegacyCands
\* the threads values a caller passes; 0 is also what an absent key reads as
LegacyThreads == (-1)..MaxLegacyThreads

\* Execute up to the range loop; make(chan struct{}, threads) panics on a
\* negative size
LegacyExecute(kind, threads, n) ==
    /\ lgPc = "idle"
    /\ lgKind' = kind
    /\ lgThreads' = threads
    /\ lgN' = n
    /\ lgIdx' = 1
    /\ lgPc' = IF threads < 0 THEN "panic" ELSE "spawn"
    /\ UNCHANGED << lgW, lgSem, lgFound >>
    /\ UNCHANGED << progVars, regVars, rcPc, mgVars >>

\* "for _, port := range ports { wg.Add(1); go func(p int) {...}(port) }"
LegacySpawn ==
    /\ lgPc = "spawn"
    /\ IF lgIdx <= lgN
       THEN /\ lgW' = [ lgW EXCEPT ![lgIdx] = "spawned" ]
            /\ lgIdx' = lgIdx + 1
            /\ lgPc' = lgPc
       ELSE /\ lgPc' = "wait"
            /\ UNCHANGED << lgW, lgIdx >>
    /\ UNCHANGED << lgKind, lgThreads, lgN, lgSem, lgFound >>
    /\ UNCHANGED << progVars, regVars, rcPc, mgVars >>

\* A send on the semaphore completes when the buffer has room.  On a channel
\* of capacity 0 it would need a goroutine receiving at that moment; the
\* only receives are the deferred releases, which run after a send completed.
LegacySendReady == lgSem < lgThreads

\* worker: "semaphore <- struct{}{}", then the dial / lookup; a hit is
\* appended to results under resultsMutex
LegacyAcquire(i, hit) ==
    /\ lgW[i] = "spawned"
    /\ LegacySendReady
    /\ lgSem' = lgSem + 1
    /\ lgW' = [ lgW EXCEPT ![i] = "inflight" ]
    /\ lgFound' = IF hit THEN lgFound \cup {i} ELSE lgFound
    /\ UNCHANGED << lgKind, lgPc, lgThreads, lgN, lgIdx >>
    /\ UNCHANGED << progVars, regVars, rcPc, mgVars >>

\* worker: the deferred "<-semaphore" and wg.Done()
LegacyRelease(i) ==
    /\ lgW[i] = "inflight"
    /\ lgSem > 0
    /\ lgSem' = lgSem - 1
    /\ lgW' = [ lgW EXCEPT ![i] = "done" ]
    /\ UNCHANGED << lgKind, lgPc, lgThreads, lgN, lgIdx, lgFound >>
    /\ UNCHANGED << progVars, regVars, rcPc, mgVars >>

\* "wg.Wait(); return results"
LegacyWait ==
    /\ lgPc = "wait"
    /\ \A i \in 1..lgN : lgW[i] = "done"
    /\ lgPc' = "done"
    /\ UNCHANGED << lgKind, lgThreads, lgN, lgIdx, lgW, lgSem, lgFound >>
    /\ UNCHANGED << progVars, regVars, rcPc, mgVars >>

(***************************************************************************)
(* Specifications.                                                         *)
(***************************************************************************)
Init ==
    /\ scanStatus = [ s \in ScanIds |-> "none" ]
    /\ scanProgress = [ s \in ScanIds |-> 0 ]
    /\ scanModule = [ s \in ScanIds |-> "" ]
    /\ scanError = [ s \in ScanIds |-> "" ]
    /\ scanTarget = [ s \in ScanIds |-> "" ]
    /\ scanOptions = [ s \in ScanIds |-> EmptyOptions ]
    /\ scanCtxDone = [ s \in ScanIds |-> FALSE ]
    /\ sessState = "none"
    /\ sessResults = [ m \in Modules |-> "none" ]
    /\ dbWorks = TRUE
    /\ dbRows = [ s \in ScanIds |-> "none" ]
    /\ execPc = [ s \in ScanIds |-> "none" ]
    /\ tickPc = [ s \in ScanIds |-> "none" ]
    /\ tickTmp = [ s \in ScanIds |-> 0 ]
    /\ ret = ""
    /\ call = ""
    /\ cancelling = 0
    /\ crashed = FALSE
    /\ modSt = [ m \in Modules |-> [ status |-> "idle", running |-> FALSE ] ]
    /\ stopCh = [ m \in Modules |-> 0 ]
    /\ semRef = [ m \in Modules |-> 0 ]
    /\ semCap = [ e \in ExecIds |-> 0 ]
    /\ semCnt = [ e \in ExecIds |-> 0 ]
    /\ exPc = [ e \in ExecIds |-> "idle" ]
    /\ exMod = [ e \in ExecIds |-> "" ]
    /\ exThreads = [ e \in ExecIds |-> 0 ]
    /\ exCands = [ e \in ExecIds |-> << >> ]
    /\ exIdx = [ e \in ExecIds |-> 0 ]
    /\ exRet = [ e \in ExecIds |-> "none" ]
    /\ exErr = [ e \in ExecIds |-> "" ]
    /\ exStopped = [ e \in ExecIds |-> FALSE ]
    /\ wPc = [ e \in ExecIds |-> [ i \in CandIdx |-> "none" ] ]
    /\ wRes = [ e \in ExecIds |-> [ i \in CandIdx |-> "none" ] ]
    /\ outLen = [ e \in ExecIds |-> 0 ]
    /\ outCap = [ e \in ExecIds |-> 0 ]
    /\ outComplete = [ e \in ExecIds |-> FALSE ]
    /\ regModules = [ n \in ModuleNames |-> 0 ]
    /\ regLog = << >>
    /\ rcPc = [ k \in RegistryKinds |-> [ c \in Callers |-> "idle" ] ]
    /\ mgBuild = ""
    /\ mgPhase = 0
    /\ mgLog = << >>
    /\ mgMap = [ a \in Addresses |-> 0 ]
    /\ mgCells = << >>
    /\ mgMax = 0
    /\ mgEmitted = << >>
    /\ mgEmitKeys = << >>
    /\ mgStopped = FALSE
    /\ mgIn = FALSE
    /\ mgStopReq = FALSE
    /\ mgOut = << >>
    /\ lgKind = ""
    /\ lgPc = "idle"
    /\ lgThreads = 0
    /\ lgN = 0
    /\ lgIdx = 0
    /\ lgW = [ i \in LegacyIdx |-> "none" ]
    /\ lgSem = 0
    /\ lgFound = {}

\* Steps of the goroutines of a module execution
ModuleStep ==
    /\ \E e \in ExecIds :
          \/ FanLoop(e)
          \/ \E i \in CandIdx : WorkerAcquire(e, i)
          \/ \E i \in CandIdx : WorkerRelease(e, i)
          \/ FanFinish(e)
    /\ UNCHANGED libVars

\* Steps of the goroutines of the manager
ManagerStep ==
    /\ \E s \in ScanIds :
          \/ ExecBegin(s)
          \/ ExecCallModule(s)
          \/ ExecReturn(s)
          \/ ExecFinalProgress(s)
          \/ ExecGetSession(s)
          \/ ExecStoreInSession(s)
          \/ TickCheck(s)
          \/ TickLoad(s)
          \/ TickStore(s)
          \/ TickExit(s)
    /\ UNCHANGED libVars

\* The application: scans started and cancelled through the ScanManager.
Next ==
    /\ ~crashed
    /\ \/ \E name \in ModuleNames, t \in Targets, o \in ScanOptionInputs :
             /\ name \in Registered => ScansStarted < MaxScans
             /\ StartScan(name, t, o)
       \/ \E s \in ScanIds : CancelScan(s)
       \/ \E s \in ScanIds : CancelCommit(s)
       \/ ManagerStep
       \/ ModuleStep
    /\ UNCHANGED libVars

Spec == Init /\ [][Next]_vars

\* The goroutines are scheduled fairly; callers are not obliged to call.
FairSpec ==
    /\ Spec
    /\ WF_vars(~crashed /\ ManagerStep)
    /\ WF_vars(~crashed /\ ModuleStep)
    /\ WF_vars(~crashed /\ UNCHANGED libVars /\ \E s \in ScanIds : CancelCommit(s))

\* The application with a session that is created and deleted while scans run
NextSess ==
    /\ ~crashed
    /\ \/ \E name \in ModuleNames, t \in Targets, o \in ScanOptionInputs :
             /\ name \in Registered => ScansStarted < MaxScans
             /\ StartScan(name, t, o)
       \/ \E s \in ScanIds : CancelScan(s)
       \/ \E s \in ScanIds : CancelCommit(s)
       \/ ManagerStep
       \/ ModuleStep
       \/ CreateSession
       \/ DeleteSession
    /\ UNCHANGED libVars

SpecSess == Init /\ [][NextSess]_vars

FairSpecSess ==
    /\ SpecSess
    /\ WF_vars(~crashed /\ ManagerStep)
    /\ WF_vars(~crashed /\ ModuleStep)
    /\ WF_vars(~crashed /\ UNCHANGED libVars /\ \E s \in ScanIds : CancelCommit(s))

\* The application with a database that can stop answering
NextStore ==
    /\ ~crashed
    /\ \/ \E name \in ModuleNames, t \in Targets, o \in ScanOptionInputs :
             /\ name \in Registered => ScansStarted < MaxScans
             /\ StartScan(name, t, o)
       \/ \E s \in ScanIds : CancelScan(s)
       \/ \E s \in ScanIds : CancelCommit(s)
       \/ ManagerStep
       \/ ModuleStep
       \/ StoreBreak
    /\ UNCHANGED libVars

SpecStore == Init /\ [][NextStore]_vars

\* The modules package used directly: Execute with the caller's options and
\* channel, and Stop, on the registered fan-out module instances.
NextFan ==
    /\ \/ \E e \in ExecIds, m \in FanModules, t \in Targets :
             \E opts \in DirectOptions(m) : DirectExecute(e, m, t, opts)
       \/ \E m \in FanModules : Stop(m)
       \/ ModuleStep
    /\ UNCHANGED libVars

SpecFan == Init /\ [][NextFan]_vars

\* A registry used on its own: a sequence of Register calls
NextReg == \E name \in Modules, inst \in InstIds : Register(name, inst)

SpecReg == Init /\ [][NextReg]_vars

\* Registries called from several goroutines
NextRegConc ==
    \E k \in RegistryKinds, c \in Callers :
        \/ RegisterEnter(k, c)
        \/ LookupEnter(k, c)
        \/ RegistryLeave(k, c)

SpecRegConc == Init /\ [][NextRegConc]_vars

\* EmailEnumModule.Execute called directly, and Stop on the module
NextMerge ==
    \/ \E build \in Builds, maxOpt \in 0..MaxResultsOpt : EmailBegin(build, maxOpt)
    \/ \E t \in 1..Len(Techniques) : \E list \in ListsOf(Techniques[t]) : EmailMerge(list)
    \/ EmailPhaseStart
    \/ EmailInnerCheck
    \/ EmailStopReturn
    \/ \E order \in UNION { [ 1..n -> Addresses ] : n \in 0..Cardinality(Addresses) } :
          EmailEmit(order)
    \/ EmailStop

SpecMerge == Init /\ [][NextMerge]_vars

\* A scanner of the scanner package executed once
LegacyStep ==
    \/ LegacySpawn
    \/ \E i \in LegacyIdx, hit \in BOOLEAN : LegacyAcquire(i, hit)
    \/ \E i \in LegacyIdx : LegacyRelease(i)
    \/ LegacyWait

NextLegacy ==
    \/ \E kind \in LegacyKinds, threads \in LegacyThreads, n \in 0..MaxLegacyCands :
          LegacyExecute(kind, threads, n)
    \/ LegacyStep

SpecLegacy == Init /\ [][NextLegacy]_vars

\* The goroutines of the fan-out are scheduled fairly
FairSpecLegacy == SpecLegacy /\ WF_vars(LegacyStep)

\* Several scans started for one session, each through the adapter
PairTargets == { TargetOk, TargetBadURL }

\* Steps of the executeScan goroutines (the progress tickers are not scheduled)
ExecuteScanStep ==
    /\ \E s \in ScanIds :
          \/ ExecBegin(s)
          \/ ExecCallModule(s)
          \/ ExecReturn(s)
          \/ ExecFinalProgress(s)
          \/ ExecGetSession(s)
          \/ ExecStoreInSession(s)
    /\ UNCHANGED libVars

NextPair ==
    /\ ~crashed
    /\ \/ /\ CreateSession
          /\ UNCHANGED libVars
       \/ /\ sessState = "live"
          /\ \E name \in FanModules, t \in PairTargets : StartScan(name, t, EmptyOptions)
          /\ UNCHANGED libVars
       \/ ExecuteScanStep
       \/ ModuleStep

SpecPair == Init /\ [][NextPair]_vars

(***************************************************************************)
(* Claims.                                                                 *)
(***************************************************************************)
InFlight(e) == { i \in CandIdx : wPc[e][i] = "inflight" }
Executing(e) == exPc[e] \in {"loop", "wait"}
\* the loop of execution e ran over its whole candidate list and Execute
\* returned nil, with no Stop() on the module meanwhile
NaturalCompletion(e) ==
    /\ exPc[e] = "done"
    /\ exRet[e] = "ok"
    /\ ~exStopped[e]
    /\ exIdx[e] > Len(exCands[e])
CandidateValues(e) == { exCands[e][i] : i \in 1..Len(exCands[e]) }
ChecksOf(e, v) == { i \in 1..Len(exCands[e]) : exCands[e][i] = v /\ wPc[e][i] = "done" }

\* C1: once CancelScan has marked a running scan cancelled, its status stays
\* cancelled in every later state; the return of the module does not replace
\* it by completed or failed.
C1_CancelledIsTerminal ==
    [][ \A s \in ScanIds : scanStatus[s] = "cancelled" => scanStatus'[s] = "cancelled" ]_vars

\* C2: after CancelScan on a running scan, the cancellation signal the
\* executing module polls (its stop channel, or the context it was given) is set.
C2_CancelReachesModule ==
    \A s \in ScanIds :
        (scanStatus[s] = "cancelled" /\ execPc[s] = "module" /\ Executing(s))
            => (IsStopped(scanModule[s]) \/ exStopped[s] \/ AdapterCtxDone(s))

\* C3: the candidate checks in flight of one execution (between semaphore
\* acquire and release) never exceed its limit L.
C3_BoundedInFlight ==
    \A e \in ExecIds : exPc[e] # "idle" => Cardinality(InFlight(e)) <= exThreads[e]

\* C4: once Stop() has been called during a fan-out, no candidate check that
\* had not started is started, also not one whose worker waits for a slot.
C4_NoAdmissionAfterStop ==
    [][ \A e \in ExecIds : \A i \in CandIdx :
            (exStopped[e] /\ wPc[e][i] = "spawned") => wPc'[e][i] # "inflight" ]_vars

\* C5: an execution that returns normally has its complete result in the
\* output channel, whatever was sent before it and with nobody draining.
C5_CompleteDelivered ==
    \A e \in ExecIds : (exPc[e] = "done" /\ exRet[e] = "ok") => outComplete[e]

\* C6: every scan StartScan created eventually has a terminal status.
C6_EveryScanTerminates ==
    \A s \in ScanIds :
        (scanStatus[s] \in {"pending", "running"}) ~> (scanStatus[s] \in Terminal)

\* C7: the Progress of a scan never decreases.
C7_ProgressMonotone ==
    [][ \A s \in ScanIds : scanProgress'[s] >= scanProgress[s] ]_vars

\* C8: Progress is 1.0 only when Status is terminal; while Status is pending
\* or running, Progress is strictly below 1.0.
C8_FullOnlyWhenTerminal ==
    \A s \in ScanIds :
        /\ scanProgress[s] = ProgressFull => scanStatus[s] \in Terminal
        /\ scanStatus[s] \in {"pending", "running"} => scanProgress[s] < ProgressFull

\* a finished scan shows 1.0; and a running scan the ticker took as far as it goes
C8_Witness ==
    \E s \in ScanIds : scanProgress[s] = ProgressFull /\ scanStatus[s] = "completed"

\* C9: at natural completion every candidate of the input set has been
\* checked exactly once.
C9_EachCandidateOnce ==
    \A e \in ExecIds :
        NaturalCompletion(e) => \A v \in CandidateValues(e) : Cardinality(ChecksOf(e, v)) = 1

\* C10: StartScan with a name that is not registered returns an error and
\* leaves the scan records and every goroutine as they were.
C10_UnknownModuleCreatesNothing ==
    [][ \A name \in ModuleNames \ Registered, t \in Targets, o \in ScanOptionInputs :
            StartScan(name, t, o) =>
                /\ ret' = "module not found"
                /\ UNCHANGED << scanVars, execPc, tickPc, tickTmp, modVars, exVars >> ]_vars

\* StartScan has just failed on an unknown name while a scan was in progress
C10_Witness ==
    /\ ret = "module not found"
    /\ \E s \in ScanIds : scanStatus[s] = "running"

\* C11: StartScan with a target the named module's Validate rejects returns
\* an error at once and creates no scan record and no task.
C11_InvalidTargetRejected ==
    [][ \A name \in Registered, t \in Targets, o \in ScanOptionInputs :
            (StartScan(name, t, o) /\ ~Validate(name, t)) =>
                /\ ret' # ""
                /\ UNCHANGED << scanVars, execPc, tickPc, tickTmp, modVars, exVars >> ]_vars

\* C12: a successful StartScan leaves a pending record and a launched task
\* without any step of the module, and a record GetScan finds is found in
\* every later state, with the module and target it was created with.
C12_RecordsAreKept ==
    [][ /\ \A s \in ScanIds :
              GetScan(s) => /\ GetScan(s)'
                            /\ scanModule'[s] = scanModule[s]
                            /\ scanTarget'[s] = scanTarget[s]
        /\ \A name \in Registered, t \in Targets, o \in ScanOptionInputs :
              StartScan(name, t, o) =>
                  /\ ret' = ""
                  /\ \E s \in ScanIds : /\ ~GetScan(s)
                                        /\ scanStatus'[s] = "pending"
                                        /\ execPc'[s] = "start"
                  /\ UNCHANGED << modVars, exVars >> ]_vars

\* a record is still found after its executeScan goroutine has ended
C12_Witness ==
    \E s \in ScanIds : GetScan(s) /\ execPc[s] = "done" /\ scanStatus[s] \in Terminal

\* module.Execute has returned to executeScan for scan s
Returned(s) == execPc[s] \in {"progress", "session", "write", "race", "done"}

\* C13: once the module's Execute has returned for a scan that was not
\* cancelled, the scan is completed exactly if Execute returned nil and
\* failed, with Error the module's error message, exactly if it returned an
\* error; before that the scan is neither; Error is empty for every scan
\* that is not failed.
C13_OutcomeFollowsModule ==
    \A s \in ScanIds :
        /\ (Returned(s) /\ scanStatus[s] # "cancelled") =>
              /\ scanStatus[s] = "completed" <=> exRet[s] = "ok"
              /\ scanStatus[s] = "failed" <=> exRet[s] = "err"
              /\ scanStatus[s] = "failed" => scanError[s] = exErr[s] /\ exErr[s] # ""
        /\ ~Returned(s) => scanStatus[s] \notin {"completed", "failed"}
        /\ scanStatus[s] # "failed" => scanError[s] = ""

\* C14: CancelScan on a scan that exists and is not running returns nil at
\* once and changes no scan, goroutine or module; it returns an error when
\* the id is unknown, and nil when it cancels a running scan.
C14_CancelNotRunningIsNoOp ==
    [][ /\ \A s \in ScanIds :
            CancelScan(s) =>
                /\ ~GetScan(s) => ret' = "scan not found"
                /\ (GetScan(s) /\ scanStatus[s] # "running") =>
                      /\ ret' = ""
                      /\ call' = "CancelScan"
                      /\ cancelling' = 0
                      /\ UNCHANGED << scanVars, execPc, tickPc, tickTmp, crashed,
                                      modVars, exVars >>
                /\ (GetScan(s) /\ scanStatus[s] = "running") =>
                      cancelling' = s /\ UNCHANGED << ret, call >>
        /\ \A s \in ScanIds : CancelCommit(s) => ret' = "" ]_vars

\* CancelScan has returned nil for a scan that is still pending
C14_Witness ==
    \E s \in ScanIds : scanStatus[s] = "pending" /\ call = "CancelScan" /\ ret = ""

\* C15: a port_scan started with a ports list and a threads option executes
\* with them: its candidate list is the parsed ports option and its limit
\* is the threads option, not the defaults.
C15_OptionsReachModule ==
    \A s \in ScanIds :
        ( /\ scanModule[s] = "port_scan"
          /\ execPc[s] \in {"module", "progress", "session", "write", "race", "done"}
          /\ scanOptions[s].threads > 0
          /\ scanOptions[s].ports # NoPorts ) =>
            /\ exThreads[s] = scanOptions[s].threads
            /\ exCands[s] = parsePorts(scanOptions[s].ports)

\* C16: Stop() can be called in every state (it never blocks), and calling it
\* again right after a call leaves the module state as the first call left it.
C16_StopIdempotent ==
    \A m \in FanModules :
        /\ ENABLED Stop(m)
        /\ StopEffect(StopEffect(ModState(m))) = StopEffect(ModState(m))

\* Stop() was called during an execution and its token is still buffered, so a
\* further call finds stopCh full
C16_Witness ==
    \E e \in ExecIds :
        /\ Executing(e)
        /\ exStopped[e]
        /\ ModState(exMod[e]) = StopEffect(ModState(exMod[e]))

ModuleTerminal == {"completed", "error", "stopped"}
\* the step in which Execute call e returns
Returns(e) == exPc[e] # "done" /\ exPc'[e] = "done"
\* the spawn loop of e was left before it reached the end of the candidate list
CutShort(e) == exPc[e] = "wait" /\ exIdx[e] <= Len(exCands[e])

\* C17: a module's status becomes stopped only from running: Stop() on an
\* idle or completed module does not make it stopped.
C17_StoppedOnlyFromRunning ==
    [][ \A m \in FanModules :
            (modSt'[m].status = "stopped" /\ modSt[m].status # "stopped")
                => modSt[m].status = "running" ]_vars

\* C18: an execution whose loop was cut short by Stop() returns with the
\* module's status stopped, not completed.
C18_CutShortEndsStopped ==
    [][ \A e \in ExecIds :
            (Returns(e) /\ CutShort(e)) => modSt'[exMod[e]].status = "stopped" ]_vars

\* C19: when Execute returns, with nil or with an error, the module's status
\* is one of completed, error, stopped and IsRunning is false.
C19_TerminalStatusOnReturn ==
    [][ \A e \in ExecIds :
            Returns(e) => /\ ~modSt'[exMod'[e]].running
                          /\ modSt'[exMod'[e]].status \in ModuleTerminal ]_vars

\* positions of the Register calls made under a name
CallsFor(name) == { i \in 1..Len(regLog) : regLog[i][1] = name }
\* the instance of the latest of them
MostRecent(name) ==
    LET last == CHOOSE i \in CallsFor(name) : \A j \in CallsFor(name) : j <= i
    IN  regLog[last][2]

\* C20: after any sequence of Register calls, Get(name) returns the module
\* most recently registered under the name, reports not-found for a name
\* never registered, and Count is the number of distinct names registered.
C20_LastRegistrationWins ==
    /\ \A name \in ModuleNames :
          IF CallsFor(name) = {}
          THEN ~Get(name).exists
          ELSE Get(name).exists /\ Get(name).module = MostRecent(name)
    /\ Count = Cardinality({ regLog[i][1] : i \in 1..Len(regLog) })

\* a name was registered twice with different modules, and Get returns the second
C20_Witness ==
    \E name \in Modules : \E i, j \in CallsFor(name) :
        /\ i < j
        /\ regLog[i][2] # regLog[j][2]
        /\ j = Len(regLog)
        /\ Get(name).module = regLog[j][2]

\* no caller is inside the map write of a Register on registry k while
\* another caller is inside any map access of k
WriterAlone(k) ==
    \A c \in Callers : rcPc[k][c] = "write" => \A d \in Callers \ {c} : rcPc[k][d] = "idle"

\* C21: for every registry type, a Register never executes its map write
\* while another Register or a lookup is inside its map access.
C21_RegistriesAreSafe == \A k \in RegistryKinds : WriterAlone(k)

\* ---- the candidate records behind the merged mapping
RECURSIVE Flatten(_)
Flatten(lists) == IF lists = << >> THEN << >> ELSE Head(lists) \o Flatten(Tail(lists))

\* every record a technique returned so far, in merge order
Candidates == Flatten(mgLog)
CandidatesOf(a) == SelectSeq(Candidates, LAMBDA x : x.email = a)

RECURSIVE MaxConfidence(_)
MaxConfidence(recs) ==
    IF recs = << >> THEN 0 ELSE max(Head(recs).conf, MaxConfidence(Tail(recs)))

Merged == Mapping(mgMap, mgCells)

\* C22: for every identity in the merged email mapping, the record's
\* confidence is the maximum confidence over all candidate records of that
\* identity, whatever the number of candidates a technique contributed.
C22_ConfidenceIsMaximum ==
    \A a \in Keys(mgMap) : Merged[a].conf = MaxConfidence(CandidatesOf(a))

Labels(recs) == UNION { { r.sources[i] : i \in DOMAIN r.sources } : r \in { recs[j] : j \in DOMAIN recs } }
SourceSet(r) == { r.sources[i] : i \in DOMAIN r.sources }

\* C23: for every identity in the merged email mapping, the record's
\* sources, as a set, are the union of the source labels of all candidate
\* records of that identity: none lost, none of another identity included.
C23_SourcesAreUnion ==
    \A a \in Keys(mgMap) : SourceSet(Merged[a]) = Labels(CandidatesOf(a))

TechniqueOrders(n) == { p \in [ 1..n -> 1..n ] : \A i, j \in 1..n : i # j => p[i] # p[j] }

\* a merged mapping with the sources of each record taken as a set
Outcome(st) ==
    LET m == Mapping(st.map, st.cells)
    IN  [ a \in Addresses |-> [ email |-> m[a].email, name |-> m[a].name,
                                sources |-> SourceSet(m[a]), conf |-> m[a].conf,
                                present |-> st.map[a] # 0 ] ]

\* C24: feeding the same per-technique finding lists into the merge in any
\* permutation of technique order yields the same final mapping: the same
\* identities, each with the same confidence, sources and other fields.
C24_OrderIndependent ==
    \A p \in TechniqueOrders(Len(mgLog)) :
        Outcome(MergeAll(EmptyMerge, [ i \in 1..Len(mgLog) |-> mgLog[p[i]] ], mgBuild))
            = Outcome(MergeAll(EmptyMerge, mgLog, mgBuild))

Identities == { Candidates[i].email : i \in DOMAIN Candidates }

\* C25: the merged mapping holds exactly one record per distinct identity
\* found, the record under key k has Email = k, and the emitted list never
\* holds two records with the same address, also when one technique returns
\* several new addresses in one pass.
C25_OneRecordPerIdentity ==
    /\ Keys(mgMap) = Identities
    /\ \A k \in Keys(mgMap) : Merged[k].email = k
    /\ \A i, j \in DOMAIN mgEmitted : i # j => mgEmitted[i].email # mgEmitted[j].email

RECURSIVE FirstNonEmptyName(_)
FirstNonEmptyName(recs) ==
    IF recs = << >> THEN ""
    ELSE IF Head(recs).name # "" THEN Head(recs).name
    ELSE FirstNonEmptyName(Tail(recs))

\* C26: a field other than sources and confidence (here the name) ends as
\* the first non-empty value seen in merge order among the records of that
\* identity: never overwritten once populated, filled from the first later
\* record that has it while still empty.
C26_FirstNonEmptyFieldKept ==
    \A a \in Keys(mgMap) : Merged[a].name = FirstNonEmptyName(CandidatesOf(a))

Min(a, b) == IF a < b THEN a ELSE b
Emitted == mgPhase = Len(Techniques) + 2 /\ ~mgStopped

\* C27: with a maximum count M the number of emitted email records is
\* min(M, number of merged identities), every emitted record is identical to
\* the merged record of its key, and the cap does not change the merged
\* mapping: it is what merging the techniques' lists gives, whatever M is.
C27_CapOnlyTruncates ==
    Emitted =>
        /\ Len(mgEmitted) = Min(mgMax, Cardinality(Keys(mgMap)))
        /\ Len(mgEmitKeys) = Len(mgEmitted)
        /\ \A i \in DOMAIN mgEmitted :
              /\ mgEmitKeys[i] \in Keys(mgMap)
              /\ mgEmitted[i] = Merged[mgEmitKeys[i]]
        /\ \A i, j \in DOMAIN mgEmitKeys : i # j => mgEmitKeys[i] # mgEmitKeys[j]
        /\ LET st == MergeAll(EmptyMerge, mgLog, mgBuild)
           IN  mgMap = st.map /\ mgCells = st.cells

\* the cap cut the emission short: two merged identities, one emitted
C27_Witness ==
    /\ Emitted
    /\ Cardinality(Keys(mgMap)) = 2
    /\ mgMax = 1
    /\ Len(mgEmitted) = 1

\* C28: every scan that reaches a terminal status while its session exists
\* eventually has its results in the session's result set under the scan's
\* module name (unless the session is deleted first).
C28_ResultsReachSession ==
    \A s \in ScanIds :
        (scanStatus[s] \in Terminal /\ sessState = "live")
            ~> \/ sessState # "live"
               \/ /\ scanModule[s] \in Modules
                  /\ sessResults[scanModule[s]] = ScanResults(s)

\* C29: when an execution is cut short by cancellation, every finding
\* computed before the cancellation point is present in the results it
\* exposes afterwards: no address already merged is missing from the list.
C29_PartialWorkKept ==
    mgStopped => \A a \in Identities : \E i \in DOMAIN mgEmitted : mgEmitted[i].email = a

\* C30: a failing persistence call (the insert of StartScan, the updates of
\* executeScan and CancelScan) leaves the in-memory scan unaffected: each
\* handler makes the same change to the record and returns the same value as
\* with a working store, and only the database row is not written.
C30_StoreFailureInvisible ==
    [][ ~dbWorks =>
          /\ dbRows' = dbRows
          /\ \A name \in Registered, t \in Targets, o \in ScanOptionInputs :
                StartScan(name, t, o) =>
                    /\ ret' = "" /\ call' = "StartScan"
                    /\ \E s \in ScanIds :
                          /\ ~GetScan(s)
                          /\ scanStatus'[s] = "pending" /\ scanProgress'[s] = 0
                          /\ scanModule'[s] = name /\ scanTarget'[s] = t
                          /\ execPc'[s] = "start"
          /\ \A s \in ScanIds :
                /\ ExecBegin(s) =>
                      /\ scanStatus'[s] = "running" /\ scanProgress'[s] = ProgressStart
                      /\ execPc'[s] = "call"
                /\ CancelCommit(s) =>
                      /\ scanStatus'[s] = "cancelled" /\ scanCtxDone'[s]
                      /\ ret' = "" /\ call' = "CancelScan"
                /\ ExecFinalProgress(s) =>
                      /\ scanProgress'[s] = ProgressFull
                      /\ scanStatus'[s] = scanStatus[s] /\ scanError'[s] = scanError[s]
                      /\ execPc'[s] = "session" ]_vars

\* a scan started, run and finished while no persistence call succeeded
C30_Witness ==
    \E s \in ScanIds :
        /\ ~dbWorks
        /\ dbRows[s] = "none"
        /\ scanStatus[s] = "completed"
        /\ execPc[s] = "done"

\* C31: emitting an event never blocks the producer.  The output channel
\* never holds more than its capacity, a step of Execute that sends a result
\* is enabled whatever the channel holds (a worker that has a slot, the end
\* of Execute after wg.Wait), and Application.Publish has an outcome for
\* every fill of a subscriber's channel, a full one included.
C31_EmitNeverBlocks ==
    /\ \A e \in ExecIds :
          /\ outLen[e] <= outCap[e]
          /\ (exPc[e] = "wait" /\ \A i \in CandIdx : wPc[e][i] \in {"none", "done"})
                => ENABLED FanFinish(e)
          /\ \A i \in CandIdx :
                ( /\ wPc[e][i] = "spawned"
                  /\ semCnt[semRef[exMod[e]]] < semCap[semRef[exMod[e]]] )
                    => ENABLED WorkerAcquire(e, i)
    /\ \A n \in 0..SubscriberCap :
          /\ PublishSend(n) \in 0..SubscriberCap
          /\ n = SubscriberCap => PublishSend(n) = n

\* Execute returned nil although the channel was full when it sent the
\* complete result
C31_Witness ==
    \E e \in ExecIds :
        /\ exPc[e] = "done" /\ exRet[e] = "ok"
        /\ outLen[e] = outCap[e]
        /\ ~outComplete[e]

\* C32: once Stop() has been called during a phased execution no later phase
\* is started: every check made after the request observes it, so a check
\* inside a phase loop cannot use the request up before the check at the
\* phase boundary (the first phase has no check in front of it).
C32_NoPhaseAfterStop ==
    [][ ~(mgStopReq /\ mgPhase > 1 /\ EmailPhaseStart) ]_vars

\* Execute has returned (every return of it in this model is "return nil")
EmailReturned == mgPhase = Len(Techniques) + 2

\* C33: an execution that returns normally has emitted the complete event
\* exactly once and as its last event, on every return path, the early
\* returns after cancellation included.
C33_CompleteOnceAndLast ==
    EmailReturned =>
        /\ Cardinality({ i \in DOMAIN mgOut : mgOut[i] = "complete" }) = 1
        /\ mgOut[Len(mgOut)] = "complete"

\* result.OpenPorts and result.ClosedPorts of execution e: the candidates the
\* workers appended under the mutex, as positions of the candidate list
OpenIdx(e) == { i \in 1..Len(exCands[e]) : wRes[e][i] = "open" }
ClosedIdx(e) == { i \in 1..Len(exCands[e]) : wRes[e][i] = "closed" }
OpenPorts(e) == { exCands[e][i] : i \in OpenIdx(e) }
ClosedPorts(e) == { exCands[e][i] : i \in ClosedIdx(e) }

\* C34: at natural completion of a port scan the open and the closed list
\* are disjoint and len(OpenPorts) + len(ClosedPorts) = TotalPorts, for
\* every completion order of the workers.
C34_ResultsCollected ==
    \A e \in ExecIds :
        (NaturalCompletion(e) /\ exMod[e] = "port_scan") =>
            /\ OpenPorts(e) \cap ClosedPorts(e) = { }
            /\ Cardinality(OpenIdx(e)) + Cardinality(ClosedIdx(e)) = Len(exCands[e])

\* C35: a Stop() request belongs to the execution it was issued for: an
\* Execute during which Stop() was not called is not cancelled by a Stop()
\* made before it started or after an earlier one finished, and runs its
\* loop over the whole candidate set.
C35_StopBelongsToExecution ==
    \A e \in ExecIds :
        (exPc[e] = "done" /\ exRet[e] = "ok" /\ ~exStopped[e])
            => exIdx[e] > Len(exCands[e])

\* C36: two executions of the same module running at the same time do not
\* interfere through the shared instance: a worker acquires and releases on
\* the semaphore its own execution made, and a worker holding a slot can
\* always give it back (it never blocks on the release).
C36_OwnSemaphoreOnly ==
    \A e \in ExecIds : \A i \in CandIdx :
        /\ wPc[e][i] \in {"spawned", "inflight"} => semRef[exMod[e]] = e
        /\ wPc[e][i] = "inflight" => ENABLED WorkerRelease(e, i)

\* C38: executing a module with an options map that lacks keys (the empty
\* map the adapter passes) never aborts abnormally: no Execute call panics
\* and the process stays alive, whichever registered module is executed.
C38_NoAbnormalAbort ==
    /\ ~crashed
    /\ \A e \in ExecIds : exPc[e] # "panic"

\* C37: the fan-outs of the scanner package terminate for every candidate
\* set and every threads value, the absent key (read as 0) included: a
\* started scanTCPPorts / enumerateSubdomains eventually returns.
C37_LegacyFanOutTerminates ==
    (lgPc \in {"spawn", "wait"}) ~> (lgPc = "done")

\* C39: a scan that ends failed leaves the session's stored findings for its
\* module unchanged: the results an earlier completed scan of the module put
\* into the session are still there after the failed scan's write-back.
C39_FailedScanKeepsFindings ==
    [][ \A s \in ScanIds :
          ( /\ ExecStoreInSession(s)
            /\ scanStatus[s] = "failed"
            /\ sessResults[scanModule[s]] = "data" )
              => sessResults'[scanModule[s]] = "data" ]_vars

\* C40: the write-backs of scans into one session's result set are mutually
\* exclusive (no two executeScan goroutines are inside the assignment into
\* session.Results at once), and once all scans started for the session
\* have finished the map holds an entry for the module of each.
C40_WriteBacksExclusive ==
    /\ Cardinality({ s \in ScanIds : execPc[s] \in {"write", "race"} }) <= 1
    /\ (\A s \in ScanIds : execPc[s] = "done")
          => \A s \in ScanIds : sessResults[scanModule[s]] # "none"

====
